---- MODULE Spec2Model ----
(***************************************************************************)
(* Model of src/browser_download.py: the video-URL extractor               *)
(* (find_video_urls_on_page), the fetch dispatcher (download_with_browser) *)
(* and main.                                                               *)
(*                                                                         *)
(* A URL / attribute value is a sequence of tokens (atomic substrings):    *)
(* s.startswith(t) is "the first token is t", t in s is "some token is t". *)
(* The empty sequence stands for a missing (None) or empty attribute,      *)
(* both falsy in the code.                                                 *)
(***************************************************************************)
EXTENDS Integers, Sequences, FiniteSets, TLC

VARIABLES
    argsOk,        \* len(sys.argv) >= 3
    page,          \* the rendered page (input)
    filename,      \* sys.argv[2] (input)
    pc,            \* position in main / download_with_browser
    video_urls,    \* find_video_urls_on_page: the collected list
    unique_urls,   \* find_video_urls_on_page: the returned list
    filtered,      \* download_with_browser: video_urls after the image filter
    idx,           \* index of the current candidate of the for loop
    browser,       \* "none" | "open" | "closed"
    destExists,    \* os.path.exists(dest_path)
    destSize,      \* get_file_size(dest_path)
    cookieFiles,   \* number of temporary .cookies files on disk
    attempts,      \* history: backend invocations, in order
    accepted,      \* history: a backend attempt was accepted as success
    visited,       \* history: the steps of the run completed so far
    result,        \* "running" | "True" | "False" | "raised"
    exitCode       \* -1 while running, else the process exit status

vars == <<argsOk, page, filename, pc, video_urls, unique_urls, filtered, idx,
          browser, destExists, destSize, cookieFiles, attempts, accepted,
          visited, result, exitCode>>

(***************************************************************************)
(* Bounds                                                                  *)
(***************************************************************************)
MaxElems == 2      \* candidate-bearing elements on a page

(***************************************************************************)
(* Program constants                                                       *)
(***************************************************************************)
VIDEO_EXTENSIONS == {".mp4", ".m3u8", ".webm", ".mkv", ".avi", ".mov"}
MIN_VIDEO_SIZE == 1024 * 1024
LinkLimit == 10
ScriptMediaExt == {".mp4", ".m3u8", ".webm"}
JsonKeys == {"videoUrl", "src", "streamUrl", "url", "file"}
JsonTypes == {"application/json", "application/ld+json"}
DataSrcPatterns == {".mp4", ".m3u8", "video"}
LinkSelectorPatterns == {"/download/", "/get_file/", ".mp4"}
LinkKeepPatterns == {".mp4", ".m3u8", "video", "download"}
ImageDenyList == {".jpg", ".jpeg", ".png", ".gif", ".svg", ".webp",
                  "poster", "thumbnail", "avatar", "logo"}

(***************************************************************************)
(* Strings                                                                 *)
(***************************************************************************)
Min(a, b) == IF a < b THEN a ELSE b

StartsWith(s, t) == Len(s) > 0 /\ s[1] = t

StartsWithBlob(s) == StartsWith(s, "blob:")

\* s.startswith('http'); also the https?:// the two regular expressions demand
StartsWithHttp(s) == Len(s) > 0 /\ s[1] \in {"http://", "https://"}

LowerTok(t) ==
    CASE t = ".MP4" -> ".mp4"
      [] t = ".JPG" -> ".jpg"
      [] OTHER -> t

Lower(s) == [k \in 1..Len(s) |-> LowerTok(s[k])]

ContainsAny(s, pats) == \E k \in 1..Len(s) : s[k] \in pats

HasScheme(s) == Len(s) > 0 /\ s[1] \in {"http://", "https://", "blob:"}

\* urllib.parse.urljoin(base, href): an href with a scheme of its own is
\* returned unchanged, a root-relative one takes scheme and host of base
urljoin(base, href) ==
    IF href = <<>> THEN base
    ELSE IF HasScheme(href) THEN href
    ELSE SubSeq(base, 1, 2) \o href

(***************************************************************************)
(* Inputs: the page URL and the values page elements may carry             *)
(***************************************************************************)
PageUrl == <<"https://", "site", "/watch">>

AbsMp4  == <<"https://", "cdn", "/a", ".mp4">>
RelMp4  == <<"/a", ".mp4">>
BlobMp4 == <<"blob:", "https://", "site", "/b", ".mp4">>
Poster  == <<"https://", "cdn", "/", "poster", ".JPG">>
VidPath == <<"https://", "cdn", "/", "video", "/9">>
DlRel   == <<"/download/", "x">>
GetFile == <<"/get_file/", "7", ".MP4">>
GetPlain == <<"/get_file/", "8">>
NoAttr  == <<>>

\* el.src as the browser reports it: the resolved src attribute; the two
\* reads are separate awaits, so the player may have emptied the element or
\* switched it to a MediaSource blob in between; "THROWS": evaluate fails
EffectiveVals(src) ==
    {NoAttr, BlobMp4, <<"THROWS">>} \cup
        (IF src = NoAttr THEN {} ELSE {urljoin(PageUrl, src)})

VideoElems ==
    UNION {{[src |-> s, effective_src |-> e] : e \in EffectiveVals(s)} :
              s \in {NoAttr, AbsMp4, RelMp4, BlobMp4}}

SourceElems == {NoAttr, AbsMp4, RelMp4, BlobMp4}

DataSrcElems == {AbsMp4, BlobMp4, VidPath, Poster}

\* a script element: its type attribute and its text, a sequence of
\* "key": "val" pairs (key "" for a bare string literal)
ScriptElems ==
    {[type |-> t, content |-> <<[key |-> k, val |-> v]>>] :
        t \in {"text/javascript", "application/json"},
        k \in {"", "url"},
        v \in {AbsMp4, BlobMp4, Poster}}

LinkElems == {AbsMp4, BlobMp4, DlRel, GetFile, GetPlain}

EmptyPage == [videos |-> <<>>, sources |-> <<>>, data_srcs |-> <<>>,
              scripts |-> <<>>, links |-> <<>>]

(***************************************************************************)
(* find_video_urls_on_page                                                 *)
(***************************************************************************)
\* the loop body without the el.src read of lines 36-41
VideoEntriesNoEffective(v) ==
    IF v.src # NoAttr /\ ~StartsWithBlob(v.src)
        THEN << <<"video", v.src>> >> ELSE <<>>

\* one iteration of the loop over the <video> elements
VideoEntries(v) ==
    (IF v.src # NoAttr /\ ~StartsWithBlob(v.src)
        THEN << <<"video", v.src>> >> ELSE <<>>)
    \o
    (IF v.effective_src = <<"THROWS">> THEN <<>>
     ELSE IF /\ v.effective_src # NoAttr
             /\ v.effective_src # v.src
             /\ ~StartsWithBlob(v.effective_src)
        THEN << <<"video_effective", v.effective_src>> >> ELSE <<>>)

RECURSIVE ScanVideos(_)
ScanVideos(vs) ==
    IF vs = <<>> THEN <<>> ELSE VideoEntries(Head(vs)) \o ScanVideos(Tail(vs))

\* loops over "video source" and over the data-src elements
RECURSIVE ScanAttr(_, _)
ScanAttr(kind, els) ==
    IF els = <<>> THEN <<>>
    ELSE (IF Head(els) # NoAttr /\ ~StartsWithBlob(Head(els))
             THEN << <<kind, Head(els)>> >> ELSE <<>>)
         \o ScanAttr(kind, Tail(els))

\* query_selector_all("[data-src*='.mp4'], [data-src*='.m3u8'], [data-src*='video']")
RECURSIVE SelectSeq2(_, _)
SelectSeq2(els, pats) ==
    IF els = <<>> THEN <<>>
    ELSE (IF ContainsAny(Head(els), pats) THEN <<Head(els)>> ELSE <<>>)
         \o SelectSeq2(Tail(els), pats)

\* re.findall(r'["\'](https?://[^"\']+\.(?:mp4|m3u8|webm)[^"\']*)["\']', content)
RECURSIVE ScriptFindall(_)
ScriptFindall(content) ==
    IF content = <<>> THEN <<>>
    ELSE (IF /\ StartsWithHttp(Head(content).val)
             /\ ContainsAny(Tail(Head(content).val), ScriptMediaExt)
             THEN <<Head(content).val>> ELSE <<>>)
         \o ScriptFindall(Tail(content))

\* re.findall(r'"(?:videoUrl|src|streamUrl|url|file)"["\']?\s*:\s*["\'](https?://[^"\']+)["\']', content)
RECURSIVE JsonFindall(_)
JsonFindall(content) ==
    IF content = <<>> THEN <<>>
    ELSE (IF /\ Head(content).key \in JsonKeys
             /\ StartsWithHttp(Head(content).val)
             /\ Len(Head(content).val) > 1
             THEN <<Head(content).val>> ELSE <<>>)
         \o JsonFindall(Tail(content))

\* the inner "for u in urls" of the script and json loops
RECURSIVE TagUrls(_, _)
TagUrls(kind, urls) ==
    IF urls = <<>> THEN <<>>
    ELSE (IF ~StartsWithBlob(Head(urls))
             THEN << <<kind, Head(urls)>> >> ELSE <<>>)
         \o TagUrls(kind, Tail(urls))

RECURSIVE ScanScripts(_)
ScanScripts(scripts) ==
    IF scripts = <<>> THEN <<>>
    ELSE TagUrls("script", ScriptFindall(Head(scripts).content))
         \o ScanScripts(Tail(scripts))

\* only the scripts whose type is application/json or application/ld+json
RECURSIVE ScanJsonConfigs(_)
ScanJsonConfigs(scripts) ==
    IF scripts = <<>> THEN <<>>
    ELSE (IF Head(scripts).type \in JsonTypes
             THEN TagUrls("json", JsonFindall(Head(scripts).content))
             ELSE <<>>)
         \o ScanJsonConfigs(Tail(scripts))

\* the loop over links[:10]
RECURSIVE ScanLinks(_)
ScanLinks(links) ==
    IF links = <<>> THEN <<>>
    ELSE (IF /\ Head(links) # NoAttr
             /\ ContainsAny(Lower(Head(links)), LinkKeepPatterns)
             THEN << <<"download_link", urljoin(PageUrl, Head(links))>> >>
             ELSE <<>>)
         \o ScanLinks(Tail(links))

\* the loop without seen.add(vurl): nothing is ever found in seen
RECURSIVE DedupLoopNoSeenAdd(_, _, _)
DedupLoopNoSeenAdd(rest, seen, acc) ==
    IF rest = <<>> THEN acc
    ELSE IF Head(rest)[2] \notin seen
        THEN DedupLoopNoSeenAdd(Tail(rest), seen, Append(acc, Head(rest)))
        ELSE DedupLoopNoSeenAdd(Tail(rest), seen, acc)

\* the de-duplication loop: seen set, first occurrence kept
RECURSIVE DedupLoop(_, _, _)
DedupLoop(rest, seen, acc) ==
    IF rest = <<>> THEN acc
    ELSE IF Head(rest)[2] \notin seen
        THEN DedupLoop(Tail(rest), seen \cup {Head(rest)[2]}, Append(acc, Head(rest)))
        ELSE DedupLoop(Tail(rest), seen, acc)

(***************************************************************************)
(* Initial states                                                          *)
(***************************************************************************)
Pages ==
    UNION {
      {[videos |-> v, sources |-> s, data_srcs |-> d, scripts |-> c, links |-> l] :
          v \in [1..n[1] -> VideoElems], s \in [1..n[2] -> SourceElems],
          d \in [1..n[3] -> DataSrcElems], c \in [1..n[4] -> ScriptElems],
          l \in [1..n[5] -> LinkElems]} :
      n \in {m \in [1..5 -> 0..MaxElems] :
                m[1] + m[2] + m[3] + m[4] + m[5] <= MaxElems}}

InitRest ==
    /\ video_urls = <<>>
    /\ unique_urls = <<>>
    /\ filtered = <<>>
    /\ idx = 0
    /\ browser = "none"
    /\ destExists = FALSE
    /\ destSize = 0
    /\ cookieFiles = 0
    /\ attempts = <<>>
    /\ accepted = FALSE
    /\ visited = {}
    /\ result = "running"
    /\ exitCode = -1

\* find_video_urls_on_page applied to every page within the bound
InitExtract ==
    /\ argsOk = TRUE
    /\ page \in Pages
    /\ filename = <<"out", ".MP4">>
    /\ pc = "scan_video"
    /\ InitRest

(***************************************************************************)
(* Actions of find_video_urls_on_page, one per scan of the page            *)
(***************************************************************************)
UnchangedRun ==
    UNCHANGED <<argsOk, page, filename, filtered, idx, browser, destExists,
                destSize, cookieFiles, attempts, accepted, visited, result,
                exitCode>>

QueryVideos ==
    /\ pc = "scan_video"
    /\ video_urls' = video_urls \o ScanVideos(page.videos)
    /\ pc' = "scan_source"
    /\ UNCHANGED unique_urls
    /\ UnchangedRun

QuerySources ==
    /\ pc = "scan_source"
    /\ video_urls' = video_urls \o ScanAttr("source", page.sources)
    /\ pc' = "scan_data_src"
    /\ UNCHANGED unique_urls
    /\ UnchangedRun

QueryDataSrcs ==
    /\ pc = "scan_data_src"
    /\ video_urls' = video_urls \o
           ScanAttr("data-src", SelectSeq2(page.data_srcs, DataSrcPatterns))
    /\ pc' = "scan_script"
    /\ UNCHANGED unique_urls
    /\ UnchangedRun

QueryScripts ==
    /\ pc = "scan_script"
    /\ video_urls' = video_urls \o ScanScripts(page.scripts)
    /\ pc' = "scan_json"
    /\ UNCHANGED unique_urls
    /\ UnchangedRun

QueryJsonConfigs ==
    /\ pc = "scan_json"
    /\ video_urls' = video_urls \o ScanJsonConfigs(page.scripts)
    /\ pc' = "scan_link"
    /\ UNCHANGED unique_urls
    /\ UnchangedRun

QueryLinks ==
    /\ pc = "scan_link"
    /\ LET links == SelectSeq2(page.links, LinkSelectorPatterns)
       IN video_urls' = video_urls \o
              ScanLinks(SubSeq(links, 1, Min(LinkLimit, Len(links))))
    /\ pc' = "dedup"
    /\ UNCHANGED unique_urls
    /\ UnchangedRun

Dedup ==
    /\ pc = "dedup"
    /\ unique_urls' = DedupLoop(video_urls, {}, <<>>)
    /\ pc' = "extracted"
    /\ UNCHANGED video_urls
    /\ UnchangedRun

NextExtract ==
    \/ QueryVideos
    \/ QuerySources
    \/ QueryDataSrcs
    \/ QueryScripts
    \/ QueryJsonConfigs
    \/ QueryLinks
    \/ Dedup

SpecExtract == InitExtract /\ [][NextExtract]_vars

(***************************************************************************)
(* download_with_browser and main                                          *)
(*                                                                         *)
(* Every awaited browser call and every subprocess.run may raise; a raise  *)
(* is a nondeterministic outcome of the step.  browser.close() itself is   *)
(* taken not to raise.  The statements from a raise to the function's exit *)
(* (the except block of lines 270-273, or the propagation out of the       *)
(* function) belong to the action of the step that raised.                 *)
(***************************************************************************)
DOWNLOAD_DIR == <<"downloads/">>

dest_path == DOWNLOAD_DIR \o filename

ExtTokens == {".mp4", ".MP4", ".bin"}

\* os.path.splitext(path)[1]
splitext1(path) ==
    IF Len(path) > 1 /\ path[Len(path)] \in ExtTokens
        THEN path[Len(path)] ELSE ""

\* the list comprehension of lines 195-196
RECURSIVE ImageFilter(_)
ImageFilter(urls) ==
    IF urls = <<>> THEN <<>>
    ELSE (IF ~ContainsAny(Lower(Head(urls)[2]), ImageDenyList)
             THEN <<Head(urls)>> ELSE <<>>)
         \o ImageFilter(Tail(urls))

\* line 238
AriaAccepts(size, e) == size >= MIN_VIDEO_SIZE \/ e \in VIDEO_EXTENSIONS

\* line 261
YtDlpAccepts(size) == size >= MIN_VIDEO_SIZE

\* sys.exit with the two statuses exchanged
ExitStatusSwapped(success) == IF success THEN 1 ELSE 0

\* line 286
ExitStatus(success) == IF success THEN 0 ELSE 1

\* what a backend run may do: the executable is missing (nothing written),
\* the run times out, or it exits with status 0 or 1; wrote = 0: the
\* destination is left as it was, else the size of the file left there
BackendOutcomes ==
    {[status |-> "missing", wrote |-> 0]} \cup
    {[status |-> st, wrote |-> w] :
        st \in {"timeout", "rc0", "rc1"},
        w \in {0, MIN_VIDEO_SIZE - 1, MIN_VIDEO_SIZE}}

Raised(o) == o.status \in {"missing", "timeout"}

ExistsAfter(o) == destExists \/ o.wrote > 0

SizeAfter(o) == IF o.wrote > 0 THEN o.wrote ELSE destSize

Attempt(backend, o) ==
    [cand |-> idx, backend |-> backend, status |-> o.status,
     exists |-> ExistsAfter(o), size |-> SizeAfter(o)]

\* the pages a whole run is checked on
VideoPage(src, eff) ==
    [EmptyPage EXCEPT !.videos = <<[src |-> src, effective_src |-> eff]>>]

RunPages ==
    { EmptyPage,
      [EmptyPage EXCEPT !.scripts =
          <<[type |-> "application/json",
             content |-> <<[key |-> "url", val |-> Poster]>>]>>],
      VideoPage(AbsMp4, AbsMp4),
      [VideoPage(RelMp4, urljoin(PageUrl, RelMp4)) EXCEPT !.links = <<BlobMp4>>],
      [EmptyPage EXCEPT !.sources = <<AbsMp4>>, !.data_srcs = <<VidPath>>],
      [EmptyPage EXCEPT !.sources = <<AbsMp4>>, !.data_srcs = <<VidPath>>,
                        !.links = <<DlRel>>] }

Init ==
    /\ argsOk \in BOOLEAN
    /\ page \in RunPages
    /\ filename \in {<<"out", ".MP4">>, <<"out", ".bin">>}
    /\ pc = "main"
    /\ InitRest

\* lines 270-273: the except block of the outer try
HandlerReturn ==
    /\ browser' = "closed"
    /\ result' = "False"
    /\ pc' = "returned"

\* the success branch without its return: control falls through to yt-dlp
ReturnTrueFallThrough ==
    /\ browser' = "closed"
    /\ result' = result
    /\ pc' = "ytdlp"

\* await browser.close(); return True
ReturnTrue ==
    /\ browser' = "closed"
    /\ result' = "True"
    /\ pc' = "returned"

\* lines 276-284
MainStart ==
    /\ pc = "main"
    /\ IF argsOk
          THEN pc' = "launch" /\ UNCHANGED exitCode
          ELSE pc' = "exited" /\ exitCode' = 1
    /\ UNCHANGED <<argsOk, page, filename, video_urls, unique_urls, filtered,
                   idx, browser, destExists, destSize, cookieFiles, attempts,
                   accepted, visited, result>>

\* lines 133-145: p.chromium.launch
Launch ==
    /\ pc = "launch"
    /\ \E raises \in BOOLEAN :
          IF raises
             THEN /\ result' = "raised"
                  /\ pc' = "returned"
                  /\ UNCHANGED <<browser, visited>>
             ELSE /\ browser' = "open"
                  /\ pc' = "new_context"
                  /\ visited' = visited \cup {"launch"}
                  /\ UNCHANGED result
    /\ UNCHANGED <<argsOk, page, filename, video_urls, unique_urls, filtered,
                   idx, destExists, destSize, cookieFiles, attempts, accepted,
                   exitCode>>

\* lines 147-163: new_context, add_init_script, new_page, before the try
SetupStep(from, to) ==
    /\ pc = from
    /\ \E raises \in BOOLEAN :
          IF raises
             THEN result' = "raised" /\ pc' = "returned"
             ELSE pc' = to /\ UNCHANGED result
    /\ visited' = visited \cup {from}
    /\ UNCHANGED <<argsOk, page, filename, video_urls, unique_urls, filtered,
                   idx, browser, destExists, destSize, cookieFiles, attempts,
                   accepted, exitCode>>

NewContext == SetupStep("new_context", "add_init_script")

AddInitScript == SetupStep("add_init_script", "new_page")

NewPage == SetupStep("new_page", "goto")

\* a step inside the outer try whose exception reaches the except block
TryStep(from, to) ==
    /\ pc = from
    /\ \E raises \in BOOLEAN :
          IF raises
             THEN HandlerReturn
             ELSE pc' = to /\ UNCHANGED <<browser, result>>
    /\ visited' = visited \cup {from}
    /\ UNCHANGED <<argsOk, page, filename, video_urls, unique_urls, filtered,
                   idx, destExists, destSize, cookieFiles, attempts, accepted,
                   exitCode>>

\* a step whose exception is swallowed by a bare except
SwallowStep(from, to) ==
    /\ pc = from
    /\ pc' = to
    /\ visited' = visited \cup {from}
    /\ UNCHANGED <<argsOk, page, filename, video_urls, unique_urls, filtered,
                   idx, browser, destExists, destSize, cookieFiles, attempts,
                   accepted, result, exitCode>>

\* line 167
Goto == TryStep("goto", "wait_challenge")

\* lines 169-180
WaitChallenge == SwallowStep("wait_challenge", "wait_timeout")

\* line 182
WaitTimeout == TryStep("wait_timeout", "play")

\* lines 184-191
ClickPlay == SwallowStep("play", "scan_video")

\* line 193: a query of find_video_urls_on_page raises
ExtractRaises ==
    /\ pc \in {"scan_video", "scan_source", "scan_data_src", "scan_script",
               "scan_json", "scan_link"}
    /\ "launch" \in visited
    /\ HandlerReturn
    /\ UNCHANGED <<argsOk, page, filename, video_urls, unique_urls, filtered,
                   idx, destExists, destSize, cookieFiles, attempts, accepted,
                   visited, exitCode>>

\* lines 195-204
FilterCandidates ==
    /\ pc = "extracted"
    /\ "launch" \in visited
    /\ filtered' = ImageFilter(unique_urls)
    /\ visited' = visited \cup {"filter"}
    /\ IF filtered' = <<>>
          THEN /\ browser' = "closed"
               /\ result' = "False"
               /\ pc' = "returned"
          ELSE /\ pc' = "cookies"
               /\ UNCHANGED <<browser, result>>
    /\ UNCHANGED <<argsOk, page, filename, video_urls, unique_urls, idx,
                   destExists, destSize, cookieFiles, attempts, accepted,
                   exitCode>>

\* lines 207-208, then the for loop starts at the first candidate
ReadCookies ==
    /\ pc = "cookies"
    /\ \E raises \in BOOLEAN :
          IF raises
             THEN HandlerReturn /\ UNCHANGED idx
             ELSE pc' = "loop" /\ idx' = 1 /\ UNCHANGED <<browser, result>>
    /\ visited' = visited \cup {"cookies"}
    /\ UNCHANGED <<argsOk, page, filename, video_urls, unique_urls, filtered,
                   destExists, destSize, cookieFiles, attempts, accepted,
                   exitCode>>

\* lines 211-218 and 266-268: loop head, the two continue tests, loop exit
LoopHead ==
    /\ pc = "loop"
    /\ IF idx > Len(filtered)
          THEN /\ browser' = "closed"
               /\ result' = "False"
               /\ pc' = "returned"
               /\ UNCHANGED idx
          ELSE IF \/ StartsWithBlob(filtered[idx][2])
                  \/ ~StartsWithHttp(filtered[idx][2])
          THEN /\ idx' = idx + 1
               /\ UNCHANGED <<pc, browser, result>>
          ELSE /\ pc' = "aria_cookie"
               /\ UNCHANGED <<idx, browser, result>>
    /\ UNCHANGED <<argsOk, page, filename, video_urls, unique_urls, filtered,
                   destExists, destSize, cookieFiles, attempts, accepted,
                   visited, exitCode>>

\* lines 223-226: NamedTemporaryFile(suffix='.cookies', delete=False)
AriaCookieFile ==
    /\ pc = "aria_cookie"
    /\ cookieFiles' = cookieFiles + 1
    /\ pc' = "aria_run"
    /\ UNCHANGED <<argsOk, page, filename, video_urls, unique_urls, filtered,
                   idx, browser, destExists, destSize, attempts, accepted,
                   visited, result, exitCode>>

\* lines 228-248: subprocess.run(aria2c), unlink, the acceptance test, and
\* the inner except
AriaRun ==
    /\ pc = "aria_run"
    /\ \E o \in BackendOutcomes :
          /\ attempts' = Append(attempts, Attempt("aria2c", o))
          /\ IF Raised(o)
                THEN /\ destExists' = ExistsAfter(o)
                     /\ destSize' = SizeAfter(o)
                     /\ pc' = "ytdlp"
                     /\ UNCHANGED <<cookieFiles, browser, result, accepted>>
                ELSE /\ cookieFiles' = cookieFiles - 1
                     /\ IF o.status = "rc0" /\ ExistsAfter(o)
                           THEN IF AriaAccepts(SizeAfter(o),
                                               LowerTok(splitext1(dest_path)))
                                   THEN /\ ReturnTrue
                                        /\ accepted' = TRUE
                                        /\ destExists' = ExistsAfter(o)
                                        /\ destSize' = SizeAfter(o)
                                   ELSE /\ destExists' = FALSE
                                        /\ destSize' = 0
                                        /\ pc' = "ytdlp"
                                        /\ UNCHANGED <<browser, result, accepted>>
                           ELSE /\ destExists' = ExistsAfter(o)
                                /\ destSize' = SizeAfter(o)
                                /\ pc' = "ytdlp"
                                /\ UNCHANGED <<browser, result, accepted>>
    /\ UNCHANGED <<argsOk, page, filename, video_urls, unique_urls, filtered,
                   idx, visited, exitCode>>

\* lines 251-264: subprocess.run(yt-dlp) and the acceptance test; a raise
\* reaches the except block of the outer try
YtDlpRun ==
    /\ pc = "ytdlp"
    /\ \E o \in BackendOutcomes :
          /\ attempts' = Append(attempts, Attempt("yt-dlp", o))
          /\ destExists' = ExistsAfter(o)
          /\ destSize' = SizeAfter(o)
          /\ IF Raised(o)
                THEN HandlerReturn /\ UNCHANGED <<idx, accepted>>
                ELSE IF /\ o.status = "rc0"
                        /\ ExistsAfter(o)
                        /\ YtDlpAccepts(SizeAfter(o))
                THEN ReturnTrue /\ accepted' = TRUE /\ UNCHANGED idx
                ELSE /\ idx' = idx + 1
                     /\ pc' = "loop"
                     /\ UNCHANGED <<browser, result, accepted>>
    /\ UNCHANGED <<argsOk, page, filename, video_urls, unique_urls, filtered,
                   cookieFiles, visited, exitCode>>

\* line 286; an exception that left download_with_browser ends the process
\* with a traceback and status 1
MainExit ==
    /\ pc = "returned"
    /\ exitCode' = IF result = "raised" THEN 1 ELSE ExitStatus(result = "True")
    /\ pc' = "exited"
    /\ UNCHANGED <<argsOk, page, filename, video_urls, unique_urls, filtered,
                   idx, browser, destExists, destSize, cookieFiles, attempts,
                   accepted, visited, result>>

Next ==
    \/ MainStart
    \/ Launch
    \/ NewContext
    \/ AddInitScript
    \/ NewPage
    \/ Goto
    \/ WaitChallenge
    \/ WaitTimeout
    \/ ClickPlay
    \/ QueryVideos
    \/ QuerySources
    \/ QueryDataSrcs
    \/ QueryScripts
    \/ QueryJsonConfigs
    \/ QueryLinks
    \/ Dedup
    \/ ExtractRaises
    \/ FilterCandidates
    \/ ReadCookies
    \/ LoopHead
    \/ AriaCookieFile
    \/ AriaRun
    \/ YtDlpRun
    \/ MainExit

Spec == Init /\ [][Next]_vars

(***************************************************************************)
(* Properties                                                              *)
(***************************************************************************)
Finished == pc \in {"returned", "exited"}

HttpCandidates ==
    {k \in 1..Len(filtered) :
        ~StartsWithBlob(filtered[k][2]) /\ StartsWithHttp(filtered[k][2])}

Attempted(k, backend) ==
    \E n \in 1..Len(attempts) :
        attempts[n].cand = k /\ attempts[n].backend = backend

AcceptableAttempt(a) ==
    /\ a.status = "rc0"
    /\ a.exists
    /\ \/ a.size >= MIN_VIDEO_SIZE
       \/ LowerTok(splitext1(dest_path)) \in VIDEO_EXTENSIONS

SmallFileAtDest == destExists /\ destSize < MIN_VIDEO_SIZE

\* C1: on every exit of download_with_browser taken after the browser has
\* been launched (normal return or exception), browser.close() has been called
C1_BrowserClosedOnEveryExit ==
    (Finished /\ "launch" \in visited) => browser = "closed"

\* C2: an error of a backend attempt never ends the run: once backends have
\* been tried, False is returned only after every http(s) candidate of the
\* filtered list has been attempted with both aria2c and yt-dlp
C2_BackendErrorsNonFatal ==
    (Finished /\ result = "False" /\ attempts # <<>>) =>
        \A k \in HttpCandidates :
            Attempted(k, "aria2c") /\ Attempted(k, "yt-dlp")

\* C3: a below-threshold file left at the destination by a backend attempt
\* and not accepted as success is gone when the next backend attempt starts
\* and when the run returns
C3_SmallFileRemoved ==
    (\/ pc \in {"aria_cookie", "ytdlp"}
     \/ (Finished /\ result # "True")) => ~SmallFileAtDest

\* C4: download_with_browser returns True exactly when some backend attempt,
\* aria2c or yt-dlp alike, exited 0 and left a file that reaches the size
\* threshold or has a video extension; otherwise it returns False
C4_TrueIffAcceptableAttempt ==
    (Finished /\ result \in {"True", "False"}) =>
        (result = "True" <=>
            \E n \in 1..Len(attempts) : AcceptableAttempt(attempts[n]))

\* C5: no entry of the list returned by find_video_urls_on_page has a URL
\* that starts with 'blob:', whatever its source kind
C5_NoBlobReturned ==
    pc = "extracted" =>
        \A k \in 1..Len(unique_urls) : ~StartsWithBlob(unique_urls[k][2])

OnlyOneVideo ==
    /\ Len(page.videos) = 1
    /\ page.sources = <<>> /\ page.data_srcs = <<>>
    /\ page.scripts = <<>> /\ page.links = <<>>
    /\ page.videos[1].src # NoAttr
    /\ ~StartsWithBlob(page.videos[1].src)

\* C6 as stated: for a page whose only candidate-bearing element is one
\* <video> with a non-blob src, the returned list has exactly one entry,
\* whose URL is that src, whatever el.src is
C6_OneVideoOneEntry ==
    (pc = "extracted" /\ OnlyOneVideo) =>
        /\ Len(unique_urls) = 1
        /\ unique_urls[1][2] = page.videos[1].src

\* C6 amended: for such a page the first entry is ('video', src); it is the
\* only entry when el.src is empty, equal to the src attribute, a blob
\* reference or cannot be read, and is otherwise followed by exactly one
\* more entry, ('video_effective', el.src)
C6_OneVideoAmended ==
    (pc = "extracted" /\ OnlyOneVideo) =>
        LET v == page.videos[1]
            e == v.effective_src
        IN IF e \in {NoAttr, <<"THROWS">>, v.src} \/ StartsWithBlob(e)
              THEN unique_urls = << <<"video", v.src>> >>
              ELSE unique_urls = << <<"video", v.src>>, <<"video_effective", e>> >>

C6_Witness ==
    /\ pc = "extracted" /\ OnlyOneVideo
    /\ page.videos[1].src = RelMp4
    /\ Len(unique_urls) = 2

FirstIdx(seq, u) ==
    CHOOSE k \in 1..Len(seq) :
        seq[k][2] = u /\ \A j \in 1..(k - 1) : seq[j][2] # u

\* C7: the returned list has no two entries with the same URL, contains
\* every collected URL, is ordered by the first occurrence of each URL in
\* the collected list, and each entry carries the kind of that occurrence
C7_DedupFirstSeen ==
    pc = "extracted" =>
        /\ \A a, b \in 1..Len(unique_urls) :
              a # b => unique_urls[a][2] # unique_urls[b][2]
        /\ {unique_urls[k][2] : k \in 1..Len(unique_urls)} =
               {video_urls[k][2] : k \in 1..Len(video_urls)}
        /\ \A a \in 1..Len(unique_urls) :
              unique_urls[a] = video_urls[FirstIdx(video_urls, unique_urls[a][2])]
        /\ \A a, b \in 1..Len(unique_urls) :
              a < b => FirstIdx(video_urls, unique_urls[a][2]) <
                           FirstIdx(video_urls, unique_urls[b][2])

C7_Witness ==
    /\ pc = "extracted"
    /\ Len(unique_urls) >= 2
    /\ \E a, b \in 1..Len(video_urls) :
          /\ a < b
          /\ video_urls[a][2] = video_urls[b][2]
          /\ video_urls[a][1] # video_urls[b][1]
          /\ \E c \in (b + 1)..Len(video_urls) :
                video_urls[c][2] # video_urls[a][2]

\* C8: when the candidate list is empty after the image filter, no backend
\* is invoked, download_with_browser returns False and the process exits
\* with code 1
C8_NoCandidatesFails ==
    ("filter" \in visited /\ filtered = <<>>) =>
        /\ attempts = <<>>
        /\ Finished
        /\ result = "False"
        /\ pc = "exited" => exitCode = 1

C8_Witness ==
    /\ "filter" \in visited /\ filtered = <<>>
    /\ unique_urls # <<>>
    /\ pc = "exited"

C10_CookieFilesDeleted ==
    /\ cookieFiles <= 1
    /\ Finished => cookieFiles = 0

====
